---- MODULE Spec2Model ----
(***************************************************************************)
(* A model of the GAN-midi backend: the Markov melody module               *)
(* (backend/app/variation/markov.py), the variation registry               *)
(* (backend/app/variation/manager.py, as used by backend/app/main.py) and  *)
(* the chord analyser (backend/app/midi.py).                               *)
(*                                                                         *)
(* The three parts share no state.  Each has its own next-state relation   *)
(* and specification; the variables of the other parts stay at their       *)
(* initial values.                                                         *)
(***************************************************************************)
EXTENDS Integers, Sequences, FiniteSets, TLC

VARIABLES
    \* ---- MarkovMelodyModule.generate, one activation per call slot ----
    pc,          \* where the call is: idle, sampling, returned, or the exception raised
    sequence,    \* extract_note_sequence(source): the input notes
    parameters,  \* the parameters mapping passed by the caller
    state_size,  \* local state_size of generate
    length,      \* local length of generate
    rng,         \* the state of the call's random.Random
    model,       \* the transition table of _build_model, in insertion order
    state,       \* the deque `state` of _sample_notes
    output,      \* the list `output` of _sample_notes
    generated,   \* the value _sample_notes returned
    built,       \* history: _build_model was entered by this call
    recovered,   \* history: the restart branch of _sample_notes ran in this call
    \* ---- VariationRegistry, one activation of all/get per thread ----
    _modules,    \* self._modules: name -> instance (0: no such key)
    rpc,         \* where the thread is in all/get
    op,          \* "all" or "get"
    arg,         \* the name passed to get
    cursor,      \* _discover: the index of the class reached
    instance,    \* _discover: the local `instance`, set and not yet stored
    seen,        \* the keys the caller found in the registry it was handed
    exc,         \* the exception the call raised
    instCount,   \* history: how many times each class was instantiated
    discoverRuns,\* history: how many times _discover was entered
    failed,      \* history: the classes whose instantiation raised
    got,         \* history: per name, the instances get returned, in order
    calls,       \* history: how many calls were made
    \* ---- midi.py: chord naming and detect_chords ----
    cpc,         \* "input" before the function under study has run, "done" after
    pitches,     \* the argument of _chord_name_from_pitch_classes
    name,        \* its result
    midi,        \* the MidiFile handed to detect_chords: its tracks
    tempo,       \* detect_chords: the local `tempo`
    events       \* detect_chords: the list returned

markovVars == <<pc, sequence, parameters, state_size, length, rng, model, state,
                output, generated, built, recovered>>

registryVars == <<_modules, rpc, op, arg, cursor, instance, seen, exc, instCount,
                  discoverRuns, failed, got, calls>>

chordVars == <<cpc, pitches, name, midi, tempo, events>>

vars == <<markovVars, registryVars, chordVars>>

\* What a step of one part leaves alone: the variables of the other parts.
notMarkov == <<registryVars, chordVars>>
notRegistry == <<markovVars, chordVars>>
notChords == <<markovVars, registryVars>>

(***************************************************************************)
(* Python helpers                                                          *)
(***************************************************************************)

\* The elements of a list, as a set.
Range(s) == {s[i] : i \in 1..Len(s)}

\* s[:n] for n >= 0: at most the first n elements.
Prefix(s, n) == SubSeq(s, 1, IF n < Len(s) THEN n ELSE Len(s))

\* deque.append on a deque with the given maxlen: the oldest element is dropped
\* when the deque is full, and a deque of maxlen 0 stays empty.
DequeAppend(d, x, maxlen) ==
    IF maxlen = 0 THEN <<>>
    ELSE IF Len(d) = maxlen THEN Append(Tail(d), x)
    ELSE Append(d, x)

\* Mapping.get(key, default) on the parameters mapping.  A key that is absent
\* is the empty sequence, a key that is present the one-element sequence of its
\* value.
ParamGet(p, key, default) == IF p[key] = <<>> THEN default ELSE p[key][1]

\* The empty parameters mapping: every default applies.
NoParameters == [state_size |-> <<>>, length |-> <<>>, seed |-> <<>>]

(***************************************************************************)
(* random.Random: a deterministic generator whose whole state is fixed by  *)
(* its seed.  The state is a residue; each draw advances it.               *)
(***************************************************************************)

\* random.Random(seed)
Random(seed) == seed % 13

\* The generator's state after one draw.
RngAdvance(s) == (2 * s + 1) % 13

\* The index (from 1) rng.choice picks in a sequence of n >= 1 elements.
RngIndex(s, n) == (RngAdvance(s) % n) + 1

(***************************************************************************)
(* markov.py                                                               *)
(***************************************************************************)

\* describe_parameters: the declared ranges and defaults.
MinStateSize == 1
MaxStateSize == 4
DefaultStateSize == 2
MinLength == 8
MaxLength == 128
DefaultLength == 32
DefaultSeed == 42

\* The shortest input generate accepts.
MinSequenceLength == 4

\* transitions[key], or the empty list when the key is absent (dict.get gives
\* None, which `not options` treats like the empty list).
DictGet(transitions, key) ==
    IF \E i \in 1..Len(transitions) : transitions[i].key = key
    THEN LET i == CHOOSE j \in 1..Len(transitions) : transitions[j].key = key
         IN transitions[i].options
    ELSE <<>>

\* transitions[key].append(note) on a defaultdict(list): a new key is inserted
\* last, an existing key keeps its place.
DictAppend(transitions, key, note) ==
    IF \E i \in 1..Len(transitions) : transitions[i].key = key
    THEN [i \in 1..Len(transitions) |->
            IF transitions[i].key = key
            THEN [key |-> key, options |-> Append(transitions[i].options, note)]
            ELSE transitions[i]]
    ELSE Append(transitions, [key |-> key, options |-> <<note>>])

\* list(model.keys())
DictKeys(transitions) == [i \in 1..Len(transitions) |-> transitions[i].key]

\* What _build_model records as the continuation of a window.
RecordedIntervalNote(window, note) ==
    IF window = <<>> THEN note ELSE note - window[Len(window)]

RecordedNote(window, note) == note

\* The loop of _build_model from the i-th note on.
RECURSIVE BuildFrom(_, _, _, _, _)
BuildFrom(seq, n, i, window, transitions) ==
    IF i > Len(seq) THEN transitions
    ELSE LET note == seq[i]
             next == IF Len(window) = n
                     THEN DictAppend(transitions, window, RecordedNote(window, note))
                     ELSE transitions
         IN BuildFrom(seq, n, i + 1, DequeAppend(window, note, n), next)

_build_model(seq, n) == BuildFrom(seq, n, 1, <<>>, <<>>)

\* rng = random.Random(seed) in generate.
StaleRng(c, seed) == rng[c]

NewRng(c, seed) == Random(seed)

\* The length check at the top of generate.
TooShortOffByOne(seq) == Len(seq) < MinSequenceLength - 1

TooShort(seq) == Len(seq) < MinSequenceLength

\* generate, from its entry to the first test of the sampling loop.  The call
\* raises ValueError for a short input, and (from deque(maxlen=...)) for a
\* negative state_size; otherwise it builds the table and enters _sample_notes
\* with seed_state = sequence[:state_size].
Generate(c, seqs, params) ==
    /\ pc[c] = "idle"
    /\ \E seq \in seqs, p \in params :
        LET n == ParamGet(p, "state_size", DefaultStateSize)
            len == ParamGet(p, "length", DefaultLength)
            seed == ParamGet(p, "seed", DefaultSeed)
            seed_state == Prefix(seq, n)
        IN
        /\ sequence' = [sequence EXCEPT ![c] = seq]
        /\ parameters' = [parameters EXCEPT ![c] = p]
        /\ generated' = [generated EXCEPT ![c] = <<>>]
        /\ recovered' = [recovered EXCEPT ![c] = FALSE]
        /\ IF TooShort(seq)
           THEN /\ pc' = [pc EXCEPT ![c] = "ValueError"]
                /\ built' = [built EXCEPT ![c] = FALSE]
                /\ model' = [model EXCEPT ![c] = <<>>]
                /\ state' = [state EXCEPT ![c] = <<>>]
                /\ output' = [output EXCEPT ![c] = <<>>]
                /\ UNCHANGED <<state_size, length, rng>>
           ELSE /\ state_size' = [state_size EXCEPT ![c] = n]
                /\ length' = [length EXCEPT ![c] = len]
                /\ rng' = [rng EXCEPT ![c] = NewRng(c, seed)]
                /\ built' = [built EXCEPT ![c] = TRUE]
                /\ IF n < 0
                   THEN /\ pc' = [pc EXCEPT ![c] = "ValueError"]
                        /\ model' = [model EXCEPT ![c] = <<>>]
                        /\ state' = [state EXCEPT ![c] = <<>>]
                        /\ output' = [output EXCEPT ![c] = <<>>]
                   ELSE /\ pc' = [pc EXCEPT ![c] = "sampling"]
                        /\ model' = [model EXCEPT ![c] = _build_model(seq, n)]
                        /\ state' = [state EXCEPT ![c] = seed_state]
                        /\ output' = [output EXCEPT ![c] = seed_state]
    /\ UNCHANGED notMarkov

\* One pass through `while len(output) < length` in _sample_notes: the exit
\* with output[:length], the restart from a random known state, or one sampled
\* note.  rng.choice of an empty list raises IndexError.
SampleStep(c) ==
    /\ pc[c] = "sampling"
    /\ LET options == DictGet(model[c], state[c])
           keys == DictKeys(model[c])
       IN
       IF Len(output[c]) >= length[c]
       THEN /\ pc' = [pc EXCEPT ![c] = "returned"]
            /\ generated' = [generated EXCEPT ![c] = Prefix(output[c], length[c])]
            /\ UNCHANGED <<rng, state, output, recovered>>
       ELSE IF options = <<>>
       THEN IF keys = <<>>
            THEN /\ pc' = [pc EXCEPT ![c] = "IndexError"]
                 /\ UNCHANGED <<rng, state, output, generated, recovered>>
            ELSE LET restart == keys[RngIndex(rng[c], Len(keys))]
                 IN /\ rng' = [rng EXCEPT ![c] = RngAdvance(rng[c])]
                    /\ state' = [state EXCEPT ![c] = restart]
                    /\ output' = [output EXCEPT ![c] = output[c] \o restart]
                    /\ recovered' = [recovered EXCEPT ![c] = TRUE]
                    /\ UNCHANGED <<pc, generated>>
       ELSE LET next_note == options[RngIndex(rng[c], Len(options))]
            IN /\ rng' = [rng EXCEPT ![c] = RngAdvance(rng[c])]
               /\ output' = [output EXCEPT ![c] = Append(output[c], next_note)]
               /\ state' = [state EXCEPT ![c] =
                               DequeAppend(state[c], next_note, Len(state[c]))]
               /\ UNCHANGED <<pc, generated, recovered>>
    /\ UNCHANGED <<sequence, parameters, state_size, length, model, built>>
    /\ UNCHANGED notMarkov

\* The call is over: its result or its exception has reached the caller, its
\* locals are gone, and the slot takes the next request.  rng keeps the state of
\* the generator the slot created last; generate never reads it again.
Return(c) ==
    /\ pc[c] \in {"returned", "ValueError", "IndexError"}
    /\ pc' = [pc EXCEPT ![c] = "idle"]
    /\ sequence' = [sequence EXCEPT ![c] = <<>>]
    /\ parameters' = [parameters EXCEPT ![c] = NoParameters]
    /\ state_size' = [state_size EXCEPT ![c] = 0]
    /\ length' = [length EXCEPT ![c] = 0]
    /\ model' = [model EXCEPT ![c] = <<>>]
    /\ state' = [state EXCEPT ![c] = <<>>]
    /\ output' = [output EXCEPT ![c] = <<>>]
    /\ generated' = [generated EXCEPT ![c] = <<>>]
    /\ built' = [built EXCEPT ![c] = FALSE]
    /\ recovered' = [recovered EXCEPT ![c] = FALSE]
    /\ UNCHANGED rng
    /\ UNCHANGED notMarkov

\* ---- the inputs of the model ----

Calls == {1, 2}

Pitches == {60, 62, 64}

MaxSeqLen == 5

SeqsOfLen(lo, hi) == UNION {[1..k -> Pitches] : k \in lo..hi}

AllSequences == SeqsOfLen(0, MaxSeqLen)

Opt(values) == {<<>>} \cup {<<v>> : v \in values}

AllParameters ==
    [state_size : Opt((MinStateSize - 2)..(MaxStateSize + 1)),
     length : Opt({MinLength - 1, MinLength, MinLength + 1}),
     seed : Opt({0, 1})]

MarkovInit ==
    /\ pc = [c \in Calls |-> "idle"]
    /\ sequence = [c \in Calls |-> <<>>]
    /\ parameters = [c \in Calls |-> NoParameters]
    /\ state_size = [c \in Calls |-> 0]
    /\ length = [c \in Calls |-> 0]
    /\ rng = [c \in Calls |-> 0]
    /\ model = [c \in Calls |-> <<>>]
    /\ state = [c \in Calls |-> <<>>]
    /\ output = [c \in Calls |-> <<>>]
    /\ generated = [c \in Calls |-> <<>>]
    /\ built = [c \in Calls |-> FALSE]
    /\ recovered = [c \in Calls |-> FALSE]

(***************************************************************************)
(* manager.py                                                              *)
(***************************************************************************)

\* The concrete VariationModule subclasses _discover finds, in the order it
\* reaches them: iter_modules yields base, manager, markov, onnx_gan, and only
\* the last two define a subclass other than VariationModule itself.
Classes == <<"MarkovMelodyModule", "SimpleGanGrooveModule">>

\* instance.name
NameOf(cls) ==
    IF cls = "MarkovMelodyModule" THEN "Markov Chain (Melody)" ELSE "Offline GAN Groove"

ModuleNames == {NameOf(Classes[i]) : i \in 1..Len(Classes)}

\* The names callers ask for: the registered ones and one that is not.
RequestNames == ModuleNames \cup {"Unknown Module"}

\* The keys of self._modules.
Keys(m) == {n \in ModuleNames : m[n] # 0}

\* `not self._modules`
AlwaysDiscover(m) == TRUE

NeedsDiscovery(m) == Keys(m) = {}

\* Whether attr() may raise: SimpleGanGrooveModule.__init__ raises
\* FileNotFoundError when models/simple_gan.onnx does not exist.
MayRaise(cls) == cls = "SimpleGanGrooveModule"

NumThreads == 2

Threads == 1..NumThreads

MaxCalls == 3

\* A caller enters registry.all() or registry.get(name).
Call(t) ==
    /\ rpc[t] = "idle"
    /\ calls < MaxCalls
    /\ calls' = calls + 1
    /\ \E o \in {"all", "get"}, n \in RequestNames :
        /\ o = "all" => n = "Unknown Module"
        /\ op' = [op EXCEPT ![t] = o]
        /\ arg' = [arg EXCEPT ![t] = n]
    /\ rpc' = [rpc EXCEPT ![t] = "check"]
    /\ seen' = [seen EXCEPT ![t] = {}]
    /\ exc' = [exc EXCEPT ![t] = "none"]
    /\ UNCHANGED <<_modules, cursor, instance, instCount, discoverRuns, failed, got>>
    /\ UNCHANGED notRegistry

\* `if not self._modules: self._discover()`
Check(t) ==
    /\ rpc[t] = "check"
    /\ IF NeedsDiscovery(_modules)
       THEN /\ rpc' = [rpc EXCEPT ![t] = "discover"]
            /\ cursor' = [cursor EXCEPT ![t] = 1]
            /\ discoverRuns' = discoverRuns + 1
       ELSE /\ rpc' = [rpc EXCEPT ![t] = "lookup"]
            /\ UNCHANGED <<cursor, discoverRuns>>
    /\ UNCHANGED <<_modules, op, arg, instance, seen, exc, instCount, failed, got, calls>>
    /\ UNCHANGED notRegistry

\* `instance = attr()` for the next class, or the end of _discover.
Instantiate(t) ==
    /\ rpc[t] = "discover"
    /\ IF cursor[t] > Len(Classes)
       THEN /\ rpc' = [rpc EXCEPT ![t] = "lookup"]
            /\ UNCHANGED <<instance, exc, instCount, failed>>
       ELSE LET cls == Classes[cursor[t]] IN
            \E raises \in {FALSE, MayRaise(cls)} :
                IF raises
                THEN /\ rpc' = [rpc EXCEPT ![t] = "raised"]
                     /\ exc' = [exc EXCEPT ![t] = "FileNotFoundError"]
                     /\ failed' = failed \cup {cls}
                     /\ UNCHANGED <<instance, instCount>>
                ELSE /\ instCount' = [instCount EXCEPT ![cls] = @ + 1]
                     /\ instance' = [instance EXCEPT ![t] = instCount[cls] + 1]
                     /\ rpc' = [rpc EXCEPT ![t] = "store"]
                     /\ UNCHANGED <<exc, failed>>
    /\ UNCHANGED <<_modules, op, arg, cursor, seen, discoverRuns, got, calls>>
    /\ UNCHANGED notRegistry

\* `self._modules[instance.name] = instance`
Store(t) ==
    /\ rpc[t] = "store"
    /\ _modules' = [_modules EXCEPT ![NameOf(Classes[cursor[t]])] = instance[t]]
    /\ instance' = [instance EXCEPT ![t] = 0]
    /\ cursor' = [cursor EXCEPT ![t] = @ + 1]
    /\ rpc' = [rpc EXCEPT ![t] = "discover"]
    /\ UNCHANGED <<op, arg, seen, exc, instCount, discoverRuns, failed, got, calls>>
    /\ UNCHANGED notRegistry

\* `return self._modules.values()` or `return self._modules[name]`; the latter
\* raises KeyError for a name that is no key.
Lookup(t) ==
    /\ rpc[t] = "lookup"
    /\ IF op[t] = "get" /\ arg[t] \notin Keys(_modules)
       THEN /\ rpc' = [rpc EXCEPT ![t] = "raised"]
            /\ exc' = [exc EXCEPT ![t] = "KeyError"]
            /\ UNCHANGED <<seen, got>>
       ELSE /\ rpc' = [rpc EXCEPT ![t] = "returned"]
            /\ seen' = [seen EXCEPT ![t] = Keys(_modules)]
            /\ got' = IF op[t] = "get"
                      THEN [got EXCEPT ![arg[t]] = Append(@, _modules[arg[t]])]
                      ELSE got
            /\ UNCHANGED exc
    /\ UNCHANGED <<_modules, op, arg, cursor, instance, instCount, discoverRuns, failed, calls>>
    /\ UNCHANGED notRegistry

\* The caller has its answer, or its exception, and the thread is free again.
Leave(t) ==
    /\ rpc[t] \in {"returned", "raised"}
    /\ rpc' = [rpc EXCEPT ![t] = "idle"]
    /\ seen' = [seen EXCEPT ![t] = {}]
    /\ exc' = [exc EXCEPT ![t] = "none"]
    /\ UNCHANGED <<_modules, op, arg, cursor, instance, instCount, discoverRuns, failed, got, calls>>
    /\ UNCHANGED notRegistry

RegistryInit ==
    /\ _modules = [n \in ModuleNames |-> 0]
    /\ rpc = [t \in Threads |-> "idle"]
    /\ op = [t \in Threads |-> "all"]
    /\ arg = [t \in Threads |-> "Unknown Module"]
    /\ cursor = [t \in Threads |-> 1]
    /\ instance = [t \in Threads |-> 0]
    /\ seen = [t \in Threads |-> {}]
    /\ exc = [t \in Threads |-> "none"]
    /\ instCount = [i \in Range(Classes) |-> 0]
    /\ discoverRuns = 0
    /\ failed = {}
    /\ got = [n \in ModuleNames |-> <<>>]
    /\ calls = 0

RegistryStep(t) ==
    \/ Call(t)
    \/ Check(t)
    \/ Instantiate(t)
    \/ Store(t)
    \/ Lookup(t)
    \/ Leave(t)

(***************************************************************************)
(* midi.py                                                                 *)
(***************************************************************************)

NOTE_NAMES == <<"C", "C#", "D", "D#", "E", "F", "F#", "G", "G#", "A", "A#", "B">>

\* sorted(S) for a finite set of integers.
RECURSIVE Sorted(_)
Sorted(S) ==
    IF S = {} THEN <<>>
    ELSE LET lo == CHOOSE x \in S : \A y \in S : x <= y
         IN <<lo>> \o Sorted(S \ {lo})

\* tuple(sorted({p % 12 for p in pitches}))
_normalize_pitch_set(ps) == Sorted({p % 12 : p \in ps})

\* "+".join(NOTE_NAMES[p] for p in pcs)
RECURSIVE JoinNames(_)
JoinNames(pcs) ==
    IF Len(pcs) = 0 THEN ""
    ELSE IF Len(pcs) = 1 THEN NOTE_NAMES[pcs[1] + 1]
    ELSE NOTE_NAMES[pcs[1] + 1] \o "+" \o JoinNames(Tail(pcs))

\* tuple(intervals[:3]) for the candidate root.  The pitch classes are
\* distinct, so are the intervals, and sorting their set is sorting their list.
Triad(pcs, root) == Prefix(Sorted({(p - root) % 12 : p \in Range(pcs)}), 3)

\* The `for root in pcs` loop from the i-th candidate root on.
RECURSIVE NameFrom(_, _)
NameFrom(pcs, i) ==
    IF i > Len(pcs) THEN JoinNames(pcs)
    ELSE LET root == pcs[i]
             triad == Triad(pcs, root)
         IN IF triad = <<0, 3, 7>> THEN NOTE_NAMES[root + 1] \o "m"
            ELSE IF triad = <<0, 4, 7>> THEN NOTE_NAMES[root + 1]
            ELSE IF triad = <<0, 4, 7, 11>> THEN NOTE_NAMES[root + 1] \o "maj7"
            ELSE IF triad = <<0, 3, 7, 10>> THEN NOTE_NAMES[root + 1] \o "m7"
            ELSE NameFrom(pcs, i + 1)

\* The shapes the chain of comparisons names, in its order, each with the suffix
\* it appends to the root's note name.
ChordTable ==
    <<[intervals |-> {0, 3, 7}, suffix |-> "m"],
      [intervals |-> {0, 4, 7}, suffix |-> ""],
      [intervals |-> {0, 4, 7, 11}, suffix |-> "maj7"],
      [intervals |-> {0, 3, 7, 10}, suffix |-> "m7"]>>

_chord_name_from_pitch_classes(ps) ==
    IF ps = {} THEN "N.C." ELSE NameFrom(_normalize_pitch_set(ps), 1)

\* mido.bpm2tempo(120): microseconds per quarter note.
DefaultTempo == 500000

\* midi.ticks_per_beat of the files analysed.
TicksPerBeat == 480

\* The first set_tempo message of a track from its i-th message on, as a
\* one-element sequence, or <<>> when there is none.
RECURSIVE FirstTempo(_, _)
FirstTempo(track, i) ==
    IF i > Len(track) THEN <<>>
    ELSE IF track[i].type = "set_tempo" THEN <<track[i].tempo>>
    ELSE FirstTempo(track, i + 1)

\* The `for track in midi.tracks` loop of _find_tempo from the k-th track on.
RECURSIVE FindTempoFrom(_, _)
FindTempoFrom(tracks, k) ==
    IF k > Len(tracks) THEN DefaultTempo
    ELSE IF FirstTempo(tracks[k], 1) # <<>> THEN FirstTempo(tracks[k], 1)[1]
    ELSE FindTempoFrom(tracks, k + 1)

_find_tempo(tracks) == FindTempoFrom(tracks, 1)

\* The absolute tick of the i-th message of a track: the sum of the delta
\* times up to it.
RECURSIVE AbsTick(_, _)
AbsTick(track, i) == IF i = 0 THEN 0 ELSE AbsTick(track, i - 1) + track[i].time

\* round(ticks / ticks_per_beat): Python rounds a half to the even integer.
Round(ticks, per) ==
    LET q == ticks \div per
        r == ticks % per
    IN IF 2 * r < per THEN q
       ELSE IF 2 * r > per THEN q + 1
       ELSE IF q % 2 = 0 THEN q ELSE q + 1

\* The places <<k, i>> of the messages of all tracks.  mido.merge_tracks puts
\* the messages in the order of their absolute ticks, and detect_chords
\* accumulates the same ticks back; the order of messages with one tick does
\* not reach the timeline, which is a dict of sets.
Places(tracks) == UNION {{<<k, i>> : i \in 1..Len(tracks[k])} : k \in 1..Len(tracks)}

\* timeline: beat -> the notes of the note_on messages with velocity > 0 whose
\* tick rounds to that beat.  A beat with no such note is no key.
NotesAt(tracks, beat) ==
    {tracks[pl[1]][pl[2]].note : pl \in
        {q \in Places(tracks) :
            /\ tracks[q[1]][q[2]].type = "note_on"
            /\ tracks[q[1]][q[2]].velocity > 0
            /\ Round(AbsTick(tracks[q[1]], q[2]), TicksPerBeat) = beat}}

Beats(tracks) ==
    {Round(AbsTick(tracks[pl[1]], pl[2]), TicksPerBeat) : pl \in
        {q \in Places(tracks) :
            /\ tracks[q[1]][q[2]].type = "note_on"
            /\ tracks[q[1]][q[2]].velocity > 0}}

\* The events loop of detect_chords over sorted(timeline.keys()).  A time is
\* kept in microseconds: beat * tempo, where the code has beat * (tempo / 1e6).
EventsOf(tracks, t) ==
    LET beats == Sorted(Beats(tracks))
    IN [b \in 1..Len(beats) |->
           [time |-> beats[b] * t,
            name |-> _chord_name_from_pitch_classes(NotesAt(tracks, beats[b])),
            pitches |-> _normalize_pitch_set(NotesAt(tracks, beats[b]))]]

\* A call of _chord_name_from_pitch_classes on the pitch set drawn.
ChordName ==
    /\ cpc = "input"
    /\ name' = _chord_name_from_pitch_classes(pitches)
    /\ cpc' = "done"
    /\ UNCHANGED <<pitches, midi, tempo, events>>
    /\ UNCHANGED notChords

\* detect_chords on the file drawn.
DetectChords ==
    /\ cpc = "input"
    /\ tempo' = _find_tempo(midi)
    /\ events' = EventsOf(midi, _find_tempo(midi))
    /\ cpc' = "done"
    /\ UNCHANGED <<pitches, name, midi>>
    /\ UNCHANGED notChords

\* ---- the inputs of the model ----

MaxPitch == 23

MaxTrackLen == 2

\* Pitch sets of up to four notes.
PitchSets ==
    {{}} \cup {{a, b, c, d} : a \in 0..MaxPitch, b \in 0..MaxPitch,
                              c \in 0..MaxPitch, d \in 0..MaxPitch}

Deltas == {0, 240, 480}

Messages ==
    [type : {"set_tempo"}, time : Deltas, note : {0}, velocity : {0},
     tempo : {400000, 600000}]
    \cup [type : {"note_on"}, time : Deltas, note : {60}, velocity : {0, 90},
          tempo : {0}]

Tracks == UNION {[1..k -> Messages] : k \in 0..MaxTrackLen}

MidiFiles == UNION {[1..k -> Tracks] : k \in 0..2}

ChordIdle ==
    /\ cpc = "input"
    /\ pitches = {}
    /\ name = ""
    /\ midi = <<>>
    /\ tempo = 0
    /\ events = <<>>

Init == MarkovInit /\ RegistryInit /\ ChordIdle

\* One caller at a time: generate runs to completion before the next call.
MarkovNext ==
    \/ Generate(1, AllSequences, AllParameters)
    \/ SampleStep(1)
    \/ Return(1)

SpecMarkov == Init /\ [][MarkovNext]_vars

\* Two callers whose generate calls interleave step by step.
ConcurrentSequences == [1..MinSequenceLength -> {60, 62}]

ConcurrentParameters ==
    [state_size : {<<>>}, length : {<<MinLength>>}, seed : Opt({0})]

ConcurrentNext ==
    \E c \in Calls :
        \/ Generate(c, ConcurrentSequences, ConcurrentParameters)
        \/ SampleStep(c)
        \/ Return(c)

SpecMarkovConcurrent == Init /\ [][ConcurrentNext]_vars

\* A single caller of the registry: each all/get ends before the next begins.
RegistrySeqNext == RegistryStep(1)

SpecRegistrySeq == Init /\ [][RegistrySeqNext]_vars

\* The threads of the server call the registry concurrently.
RegistryNext == \E t \in Threads : RegistryStep(t)

SpecRegistry == Init /\ [][RegistryNext]_vars

\* _chord_name_from_pitch_classes on every pitch set of the bounds.
ChordNameInit ==
    /\ MarkovInit /\ RegistryInit
    /\ cpc = "input"
    /\ pitches \in PitchSets
    /\ name = ""
    /\ midi = <<>>
    /\ tempo = 0
    /\ events = <<>>

SpecChordName == ChordNameInit /\ [][ChordName]_vars

\* detect_chords on every file of the bounds.
DetectChordsInit ==
    /\ MarkovInit /\ RegistryInit
    /\ cpc = "input"
    /\ pitches = {}
    /\ name = ""
    /\ midi \in MidiFiles
    /\ tempo = 0
    /\ events = <<>>

SpecDetectChords == DetectChordsInit /\ [][DetectChords]_vars

(***************************************************************************)
(* Properties of the Markov melody module                                  *)
(***************************************************************************)

Finished(c) == pc[c] \in {"returned", "ValueError", "IndexError"}

\* C1: a call whose input has at least 4 notes, whose state_size is in 1..4 and
\* whose length is in 8..128 ends by returning exactly `length` notes.
C1_ExactLength ==
    \A c \in Calls :
        (/\ Finished(c)
         /\ Len(sequence[c]) >= MinSequenceLength
         /\ state_size[c] \in MinStateSize..MaxStateSize
         /\ length[c] \in MinLength..MaxLength)
        => (pc[c] = "returned" /\ Len(generated[c]) = length[c])

\* C5: two finished calls with the same notes and the same parameters ended the
\* same way with the same notes, whatever ran before or between them.
C5_Deterministic ==
    \A c1, c2 \in Calls :
        (/\ Finished(c1) /\ Finished(c2)
         /\ sequence[c1] = sequence[c2]
         /\ parameters[c1] = parameters[c2])
        => (pc[c1] = pc[c2] /\ generated[c1] = generated[c2])

\* Two calls with the same arguments have both returned, both after a restart
\* from a randomly chosen state.
C5_Witness ==
    /\ pc[1] = "returned" /\ pc[2] = "returned"
    /\ sequence[1] = sequence[2] /\ parameters[1] = parameters[2]
    /\ recovered[1] /\ recovered[2]
    /\ Len(generated[1]) = MinLength

\* C7: the state_size used to build the table is in 1..4, the length used for
\* sampling is in 8..128, and an absent key takes its declared default.
C7_ParametersClamped ==
    \A c \in Calls :
        pc[c] \in {"sampling", "returned", "IndexError"}
        => (/\ state_size[c] \in MinStateSize..MaxStateSize
            /\ length[c] \in MinLength..MaxLength
            /\ (parameters[c].state_size = <<>> => state_size[c] = DefaultStateSize)
            /\ (parameters[c].length = <<>> => length[c] = DefaultLength))

\* C8: a call whose input has fewer than 4 notes has raised ValueError, without
\* entering _build_model, with no table, no sampled note and no result.
C8_ShortInputRejected ==
    \A c \in Calls :
        (pc[c] # "idle" /\ Len(sequence[c]) < MinSequenceLength)
        => (/\ pc[c] = "ValueError"
            /\ ~built[c]
            /\ model[c] = <<>>
            /\ output[c] = <<>>
            /\ generated[c] = <<>>)

\* A three-note input with an out-of-range state_size has been rejected.
C8_Witness ==
    /\ pc[1] = "ValueError"
    /\ Len(sequence[1]) = MinSequenceLength - 1
    /\ parameters[1].state_size = <<MaxStateSize + 1>>

\* C9: every note sampled so far, and every note returned, is a pitch of the
\* input sequence.
C9_OutputWithinTraining ==
    \A c \in Calls :
        /\ Range(output[c]) \subseteq Range(sequence[c])
        /\ Range(generated[c]) \subseteq Range(sequence[c])

\* A call on an input that leaves one pitch unused has returned `length` notes
\* after at least one restart from a randomly chosen state.
C9_Witness ==
    /\ pc[1] = "returned"
    /\ recovered[1]
    /\ Range(sequence[1]) # Pitches
    /\ Cardinality(Range(sequence[1])) > 1
    /\ state_size[1] \in MinStateSize..MaxStateSize
    /\ length[1] >= MinLength
    /\ Len(generated[1]) = length[1]

(***************************************************************************)
(* Properties of the variation registry                                    *)
(***************************************************************************)

\* C2: with concurrent callers and no failing instantiation, _discover is
\* entered once, every class is instantiated once, and a caller that is handed
\* the registry finds every discoverable module in it.
C2_DiscoveredExactlyOnce ==
    failed = {}
    => (/\ discoverRuns <= 1
        /\ \A cls \in Range(Classes) : instCount[cls] <= 1
        /\ \A t \in Threads : rpc[t] = "returned" => seen[t] = ModuleNames)

\* C3: once the instantiation of a class has raised, no call returns from a
\* registry that lacks that class's module.
C3_FailureNotOmitted ==
    \A t \in Threads :
        rpc[t] = "returned" => \A cls \in failed : NameOf(cls) \in seen[t]

\* C6: with a single caller, _discover is entered at most once, every class is
\* instantiated at most once, and all the get calls with one name returned the
\* same instance.
C6_SingleCallerDiscoversOnce ==
    /\ discoverRuns <= 1
    /\ \A cls \in Range(Classes) : instCount[cls] <= 1
    /\ \A n \in ModuleNames :
        \A i, j \in 1..Len(got[n]) : got[n][i] = got[n][j]

\* The single caller has just been returned a module by its second get of the
\* same name, after one discovery.
C6_Witness ==
    /\ rpc[1] = "returned" /\ op[1] = "get"
    /\ Len(got[arg[1]]) >= 2
    /\ discoverRuns = 1

(***************************************************************************)
(* Properties of the chord analyser                                        *)
(***************************************************************************)

\* C4: a pitch set whose pitch classes are one of the four shapes of the chord
\* table on a root r is named by the note name of r and the suffix of that
\* shape, whatever the octaves of its pitches.
C4_TableLabel ==
    cpc = "done"
    => \A r \in 0..11, k \in 1..Len(ChordTable) :
        {p % 12 : p \in pitches} = {(r + d) % 12 : d \in ChordTable[k].intervals}
        => name = NOTE_NAMES[r + 1] \o ChordTable[k].suffix

\* The set_tempo messages of a file, each with its absolute tick.
TempoEvents(tracks) ==
    {[tick |-> AbsTick(tracks[pl[1]], pl[2]), tempo |-> tracks[pl[1]][pl[2]].tempo] :
        pl \in {q \in Places(tracks) : tracks[q[1]][q[2]].type = "set_tempo"}}

\* C10: the tempo detect_chords uses is the tempo of a set_tempo message with
\* the smallest absolute tick over all tracks, and is the 120 BPM default
\* exactly when the file has no set_tempo message.
C10_TempoIsEarliest ==
    cpc = "done"
    => LET te == TempoEvents(midi) IN
       /\ te = {} <=> tempo = DefaultTempo
       /\ te # {} => \E e \in te : /\ \A f \in te : e.tick <= f.tick
                                  /\ tempo = e.tempo

====
